---------------------------- MODULE Spec2Model ----------------------------
(***************************************************************************)
(* A model of main.py: the chunked tile world (generate_chunk, get_block,  *)
(* set_block, unload_far_chunks), the player, the zombies, the bullets,    *)
(* the items and the main loop that ties them together.                    *)
(***************************************************************************)
EXTENDS Integers, Sequences, FiniteSets, TLC

(***************************************************************************)
(* Constants of main.py                                                    *)
(***************************************************************************)
TILE_SIZE == 32
CHUNK_SIZE == 16
SCREEN_WIDTH == 800
SCREEN_HEIGHT == 600
LOAD_RADIUS == 2
UNLOAD_RADIUS == 3

(***************************************************************************)
(* Integer helpers.  Python's // and % floor; TLA+'s \div and % floor too  *)
(* for a positive divisor.  int() truncates toward zero.                   *)
(***************************************************************************)
Abs(n) == IF n < 0 THEN -n ELSE n

\* division that truncates toward zero, as C's does
TruncDiv(a, b) == IF a >= 0 THEN a \div b ELSE -((-a) \div b)

\* math.floor(a / b) and a // b; exact while |a| < 2^53, and the coordinates
\* of the program stay below 2^31
FloorDiv(a, b) == a \div b

PyMod(a, b) == a % b

(***************************************************************************)
(* The shared random source (module random).  Its state is one number;    *)
(* random.seed(s) sets the state from s alone and every draw steps it.     *)
(* A draw is read in thousandths: random.random() < 0.1 is Draw < 100.     *)
(***************************************************************************)
RngMod == 1000

RngMul == 621

RngInc == 17

\* a seed call that leaves the state as the earlier draws left it
SeedKeepsState(rng, s) == rng

Seed(rng, s) == s % RngMod

NextRng(rng) == (RngMul * rng + RngInc) % RngMod

\* random.randint(a, b) read off the state r that the draw produced
RandInt(r, a, b) == a + ((r * (b - a + 1)) \div RngMod)

(***************************************************************************)
(* generate_chunk(cx, cy): seeds the shared source from the chunk          *)
(* coordinates, fills the grid column by column (pass 1) and then plants   *)
(* trees (pass 2).  The grid is indexed chunk[y][x].  The result carries   *)
(* the state the shared source is left in.                                 *)
(***************************************************************************)
Local == 0 .. (CHUNK_SIZE - 1)

ChunkSeed(cx, cy) == cx * 928371 - ((-cy) * 12345)

\* a cell for which the sky reaches one row further down
GenCellLowSky(y, rng) ==
  LET r1 == NextRng(rng)
      b0 == IF r1 * 10 < RngMod THEN "stone"
            ELSE IF r1 * 10 < 2 * RngMod THEN "dirt"
            ELSE "grass"
      b1 == IF y <= CHUNK_SIZE \div 2 THEN "air" ELSE b0
      r2 == NextRng(r1)
  IN  IF b1 = "grass"
        THEN [block |-> IF r2 * 50 < RngMod THEN "water" ELSE "grass", rng |-> r2]
        ELSE [block |-> b1, rng |-> r1]

\* lines 43-55 for one cell: the block and the random state after it
GenCell(y, rng) ==
  LET r1 == NextRng(rng)
      b0 == IF r1 * 10 < RngMod THEN "stone"
            ELSE IF r1 * 10 < 2 * RngMod THEN "dirt"
            ELSE "grass"
      b1 == IF y < CHUNK_SIZE \div 2 THEN "air" ELSE b0
      r2 == NextRng(r1)
  IN  IF b1 = "grass"
        THEN [block |-> IF r2 * 50 < RngMod THEN "water" ELSE "grass", rng |-> r2]
        ELSE [block |-> b1, rng |-> r1]

\* line 40
AllAir == [y \in Local |-> [x \in Local |-> "air"]]

\* lines 42-55 for the k-th cell visited: x is the outer loop, y the inner
GenStep(k, st) ==
  LET x == k \div CHUNK_SIZE
      y == k % CHUNK_SIZE
      c == GenCell(y, st.rng)
  IN  [chunk |-> [st.chunk EXCEPT ![y][x] = c.block], rng |-> c.rng]

RECURSIVE GenCells(_, _, _)
\* the cells lo .. hi - 1 in order, from st.  The range is split in halves
\* and the first half is bound as a value before the second starts, which
\* keeps the evaluation shallow.
GenCells(lo, hi, st) ==
  IF hi <= lo THEN st
  ELSE IF hi = lo + 1 THEN GenStep(lo, st)
  ELSE CHOOSE r \in {GenCells((lo + hi) \div 2, hi, half) :
                       half \in {GenCells(lo, (lo + hi) \div 2, st)}} : TRUE

\* lines 41-55
GenPass1(rng) ==
  GenCells(0, CHUNK_SIZE * CHUNK_SIZE, [chunk |-> AllAir, rng |-> rng])

\* lines 59-63: the lowest non-air cell of column x, -1 for None
GroundY(chunk, x) ==
  LET solid == {y \in Local : chunk[y][x] # "air"}
  IN  IF solid = {} THEN -1 ELSE CHOOSE y \in solid : \A z \in solid : z <= y

\* lines 66-68
PlaceTrunk(chunk, x, ground_y, height) ==
  LET upto[h \in 0 .. height] ==
        IF h = 0 THEN chunk
        ELSE IF ground_y - (h - 1) - 1 >= 0
          THEN [upto[h - 1] EXCEPT ![ground_y - (h - 1) - 1][x] = "wood"]
          ELSE upto[h - 1]
  IN  upto[height]

\* lines 70-76: k runs through the (dx, dy) pairs, dx the outer loop
PlaceLeaves(chunk, x, leaf_y) ==
  LET upto[k \in 0 .. 9] ==
        IF k = 0 THEN chunk
        ELSE LET prev == upto[k - 1]
                 dx == ((k - 1) \div 3) - 1
                 dy == ((k - 1) % 3) - 1
                 lx == x - (-dx)
                 ly == leaf_y - (-dy)
             IN  IF /\ 0 <= lx /\ lx < CHUNK_SIZE
                    /\ 0 <= ly /\ ly < CHUNK_SIZE
                    /\ prev[ly][lx] = "air"
                   THEN [prev EXCEPT ![ly][lx] = "leaf"]
                   ELSE prev
  IN  upto[9]

\* lines 58-76 for column x
GenTree(x, rng, chunk) ==
  LET ground_y == GroundY(chunk, x)
      \* "if ground_y and ...": None and 0 are both false
      cand == ground_y > 0 /\ chunk[ground_y][x] = "grass"
      r1 == NextRng(rng)
      r2 == NextRng(r1)
      height == RandInt(r2, 2, 4)
  IN  IF cand /\ r1 * 20 < RngMod
        THEN [chunk |-> PlaceLeaves(PlaceTrunk(chunk, x, ground_y, height),
                                    x, ground_y - height),
              rng |-> r2]
        ELSE [chunk |-> chunk, rng |-> IF cand THEN r1 ELSE rng]

RECURSIVE GenTrees(_, _, _)
\* lines 58-76: the columns lo .. hi - 1 in order, from st
GenTrees(lo, hi, st) ==
  IF hi <= lo THEN st
  ELSE IF hi = lo + 1 THEN GenTree(lo, st.rng, st.chunk)
  ELSE CHOOSE r \in {GenTrees((lo + hi) \div 2, hi, half) :
                       half \in {GenTrees(lo, (lo + hi) \div 2, st)}} : TRUE

generate_chunk(cx, cy, rng) ==
  LET p1 == GenPass1(Seed(rng, ChunkSeed(cx, cy)))
  IN  GenTrees(0, CHUNK_SIZE, p1)

(***************************************************************************)
(* The chunk store (the dict chunks): a function from chunk coordinates    *)
(* <<cx, cy>> to grids.  The operations take the store and the random      *)
(* state and return the new ones.                                          *)
(***************************************************************************)
NoChunks == <<>>

Loaded(chs) == DOMAIN chs

ChunkOf(x, y) == <<FloorDiv(x, CHUNK_SIZE), FloorDiv(y, CHUNK_SIZE)>>

\* a store that files under c the grid of the chunk with c's coordinates
\* swapped
EnsureChunkMirrored(chs, rng, c) ==
  IF c \in DOMAIN chs THEN [chunks |-> chs, rng |-> rng]
  ELSE LET g == generate_chunk(c[2], c[1], rng)
       IN  [chunks |-> (c :> g.chunk) @@ chs, rng |-> g.rng]

\* lines 83-86 and 95-98: the chunk, generated and stored when absent
EnsureChunk(chs, rng, c) ==
  IF c \in DOMAIN chs THEN [chunks |-> chs, rng |-> rng]
  ELSE LET g == generate_chunk(c[1], c[2], rng)
       IN  [chunks |-> (c :> g.chunk) @@ chs, rng |-> g.rng]

get_block(chs, rng, x, y) ==
  LET e == EnsureChunk(chs, rng, ChunkOf(x, y))
      bx == PyMod(x, CHUNK_SIZE)
      by == PyMod(y, CHUNK_SIZE)
  IN  [chunks |-> e.chunks, rng |-> e.rng, block |-> e.chunks[ChunkOf(x, y)][by][bx]]

set_block(chs, rng, x, y, block) ==
  LET e == EnsureChunk(chs, rng, ChunkOf(x, y))
      bx == PyMod(x, CHUNK_SIZE)
      by == PyMod(y, CHUNK_SIZE)
  IN  [chunks |-> [e.chunks EXCEPT ![ChunkOf(x, y)][by][bx] = block], rng |-> e.rng]

\* an unload step that keeps less than the load step ensures
UnloadTooNear(chs, player_chunk) ==
  LET to_remove == {c \in DOMAIN chs :
                      \/ Abs(c[1] - player_chunk[1]) > LOAD_RADIUS - 1
                      \/ Abs(c[2] - player_chunk[2]) > LOAD_RADIUS - 1}
  IN  [c \in (DOMAIN chs) \ to_remove |-> chs[c]]

\* an unload step that removes nothing
UnloadNothing(chs, player_chunk) == chs

unload_far_chunks(chs, player_chunk) ==
  LET to_remove == {c \in DOMAIN chs :
                      \/ Abs(c[1] - player_chunk[1]) > UNLOAD_RADIUS
                      \/ Abs(c[2] - player_chunk[2]) > UNLOAD_RADIUS}
  IN  [c \in (DOMAIN chs) \ to_remove |-> chs[c]]

\* a range that stops one short of player_chunk + LOAD_RADIUS
LoadSpanShort == LOAD_RADIUS - (-LOAD_RADIUS)

\* the length of range(c - LOAD_RADIUS, c - (-LOAD_RADIUS - 1))
LoadSpan == LOAD_RADIUS - (-LOAD_RADIUS - 1)

\* lines 266-267 for the k-th (cx, cy) pair, cx the outer loop
LoadOne(k, st, player_chunk) ==
  EnsureChunk(st.chunks, st.rng,
              <<player_chunk[1] - LOAD_RADIUS + (k \div LoadSpan),
                player_chunk[2] - LOAD_RADIUS + (k % LoadSpan)>>)

RECURSIVE LoadFrom(_, _, _, _)
\* the pairs lo .. hi - 1 in order, from st
LoadFrom(lo, hi, st, player_chunk) ==
  IF hi <= lo THEN st
  ELSE IF hi = lo + 1 THEN LoadOne(lo, st, player_chunk)
  ELSE CHOOSE r \in {LoadFrom((lo + hi) \div 2, hi, half, player_chunk) :
                       half \in {LoadFrom(lo, (lo + hi) \div 2, st, player_chunk)}} :
              TRUE

\* lines 264-267
load_nearby(chs, rng, player_chunk) ==
  LoadFrom(0, LoadSpan * LoadSpan, [chunks |-> chs, rng |-> rng], player_chunk)

(***************************************************************************)
(* pygame.Rect: x, y, w, h; colliderect is strict overlap.                 *)
(***************************************************************************)
Rect(x, y, w, h) == [x |-> x, y |-> y, w |-> w, h |-> h]

colliderect(a, b) ==
  /\ a.x < b.x + b.w
  /\ a.y < b.y + b.h
  /\ a.x + a.w > b.x
  /\ a.y + a.h > b.y

inflate(r, dw, dh) == Rect(r.x - (dw \div 2), r.y - (dh \div 2), r.w + dw, r.h + dh)

centerx(r) == r.x + (r.w \div 2)

centery(r) == r.y + (r.h \div 2)

Sign(n) == IF n > 0 THEN 1 ELSE IF n < 0 THEN -1 ELSE 0

\* int(d / max(1, hypot(dx, dy)) * speed): the largest n with
\* n * hypot(dx, dy) <= speed * |d|, signed like d; 0 when dx = dy = 0
TruncScaled(d, dx, dy, speed) ==
  LET h2 == dx * dx + dy * dy
      n == CHOOSE m \in 0 .. speed :
             /\ m * m * h2 <= speed * speed * d * d
             /\ (m + 1) * (m + 1) * h2 > speed * speed * d * d
  IN  IF h2 = 0 THEN 0 ELSE Sign(d) * n

(***************************************************************************)
(* The state of the program.                                               *)
(*   chunks       the dict chunks                                          *)
(*   rng          the state of the shared random source                    *)
(*   player       x, y, rect, inventory, selected                          *)
(*   zombies      the list zombies: rect and health                        *)
(*   items        the list items: kind and rect                            *)
(*   bullets      the list bullets: rect, vx, vy (as int() reads them),    *)
(*                life                                                     *)
(*   time_of_day  the day clock, a double held exactly (see DayNight)       *)
(*   pc           the place of the main loop within its iteration          *)
(*   held         the keys pygame.key.get_pressed() reports                *)
(*   nev          the events handled so far in this iteration              *)
(*   tick         the iterations completed                                 *)
(*   call         the call SpecStore made last and the number of its calls *)
(* and of the server of bot_server.py, a program of its own:               *)
(*   suspicion_store   SuspicionStore._store: client address to entry      *)
(*   now               what time.time() returns, in seconds                *)
(*   request           the request handled last: command, path and client  *)
(*                     address                                             *)
(*   reply             the response to it and the number of requests       *)
(*                     handled                                             *)
(***************************************************************************)
VARIABLES chunks, rng, player, zombies, items, bullets, time_of_day,
          pc, held, nev, tick, call, suspicion_store, now, request, reply

vars == <<chunks, rng, player, zombies, items, bullets, time_of_day,
          pc, held, nev, tick, call, suspicion_store, now, request, reply>>

\* the state of the game and the state of the server
game == <<chunks, rng, player, zombies, items, bullets, time_of_day,
          pc, held, nev, tick, call>>

server == <<suspicion_store, now, request, reply>>

\* SuspicionStore.__init__ (bot_server.py, line 31): no entry, no request yet
NoReply ==
  [client |-> "", kind |-> "none", flagged |-> FALSE, reasons |-> <<>>,
   cookies |-> "", count |-> 0]

NoRequest == [command |-> "", path |-> "", client |-> ""]

ServerStarted ==
  suspicion_store = <<>> /\ now = 0 /\ request = NoRequest /\ reply = NoReply

Kinds == {"air", "grass", "dirt", "stone", "wood", "leaf", "water",
          "sword", "gun", "ammo"}

\* Player.__init__: the defaultdict reads 0 for every other kind
InitialInventory ==
  [k \in Kinds |-> IF k = "dirt" THEN 10 ELSE IF k = "stone" THEN 5 ELSE 0]

InitialPlayer ==
  [x |-> 0, y |-> 0,
   rect |-> Rect(SCREEN_WIDTH \div 2, SCREEN_HEIGHT \div 2, TILE_SIZE, TILE_SIZE),
   inventory |-> InitialInventory,
   selected |-> "dirt"]

Zombie(x, y) == [rect |-> Rect(x * TILE_SIZE, y * TILE_SIZE, TILE_SIZE, TILE_SIZE),
                 health |-> 3]

Item(x, y, kind) == [kind |-> kind, rect |-> Rect(x, y, TILE_SIZE \div 2, TILE_SIZE \div 2)]

BulletLife == 120

Bullet(x, y, vx, vy) == [rect |-> Rect(x, y, 5, 5), vx |-> vx, vy |-> vy,
                         life |-> BulletLife]

(***************************************************************************)
(* Player.place_block and Player.break_block                               *)
(***************************************************************************)
PlayerTile(p) ==
  <<p.x - FloorDiv(-p.rect.x, TILE_SIZE), p.y - FloorDiv(-p.rect.y, TILE_SIZE)>>

\* a placement that does not look at the target tile
PlaceAnywhere(chs, r, p) ==
  LET t == PlayerTile(p)
      s == set_block(chs, r, t[1], t[2], p.selected)
  IN  IF p.inventory[p.selected] > 0
        THEN [chunks |-> s.chunks, rng |-> s.rng,
              player |-> [p EXCEPT !.inventory[p.selected] = @ - 1]]
        ELSE [chunks |-> chs, rng |-> r, player |-> p]

\* a placement that does not look at the inventory
PlaceWithoutStock(chs, r, p) ==
  LET t == PlayerTile(p)
      g == get_block(chs, r, t[1], t[2])
      s == set_block(g.chunks, g.rng, t[1], t[2], p.selected)
  IN  IF g.block = "air"
        THEN [chunks |-> s.chunks, rng |-> s.rng,
              player |-> [p EXCEPT !.inventory[p.selected] = @ - 1]]
        ELSE [chunks |-> g.chunks, rng |-> g.rng, player |-> p]

place_block(chs, r, p) ==
  LET t == PlayerTile(p)
      g == get_block(chs, r, t[1], t[2])
      s == set_block(g.chunks, g.rng, t[1], t[2], p.selected)
  IN  IF p.inventory[p.selected] > 0
        THEN IF g.block = "air"
               THEN [chunks |-> s.chunks, rng |-> s.rng,
                     player |-> [p EXCEPT !.inventory[p.selected] = @ - 1]]
               ELSE [chunks |-> g.chunks, rng |-> g.rng, player |-> p]
        ELSE [chunks |-> chs, rng |-> r, player |-> p]

\* a break that gives a block only for grass, dirt, stone and wood
BreakDropsSolid(chs, r, p) ==
  LET t == PlayerTile(p)
      g == get_block(chs, r, t[1], t[2])
      s == set_block(g.chunks, g.rng, t[1], t[2], "air")
  IN  IF g.block \in {"grass", "dirt", "stone", "wood"}
        THEN [chunks |-> s.chunks, rng |-> s.rng,
              player |-> [p EXCEPT !.inventory[g.block] = @ - (-1)]]
        ELSE IF g.block # "air"
          THEN [chunks |-> s.chunks, rng |-> s.rng, player |-> p]
          ELSE [chunks |-> g.chunks, rng |-> g.rng, player |-> p]

break_block(chs, r, p) ==
  LET t == PlayerTile(p)
      g == get_block(chs, r, t[1], t[2])
      s == set_block(g.chunks, g.rng, t[1], t[2], "air")
  IN  IF g.block # "air"
        THEN [chunks |-> s.chunks, rng |-> s.rng,
              player |-> [p EXCEPT !.inventory[g.block] = @ - (-1)]]
        ELSE [chunks |-> g.chunks, rng |-> g.rng, player |-> p]

(***************************************************************************)
(* The event handlers of the main loop (lines 218-249).  One action per    *)
(* event taken from pygame.event.get().                                    *)
(***************************************************************************)
MaxEventsPerTick == 2

CanHandle == pc = "events" /\ nev < MaxEventsPerTick

Handled == nev' = nev + 1 /\ UNCHANGED <<pc, held, tick, time_of_day, call, server>>

\* K_1, K_2, K_3
SelectKeys == {"dirt", "stone", "wood"}

KeySelect(k) ==
  /\ CanHandle
  /\ player' = [player EXCEPT !.selected = k]
  /\ UNCHANGED <<chunks, rng, zombies, items, bullets>>
  /\ Handled

\* an attack that does not look at the sword count
MeleeDamageFlat(p) == 1

MeleeDamage(p) == IF p.inventory["sword"] > 0 THEN 2 ELSE 1

InReach(p, z) == colliderect(p.rect, inflate(z.rect, 20, 20))

\* a filter that keeps a zombie at health 0
IsAliveOrZero(z) == z.health >= 0

IsAlive(z) == z.health > 0

\* lines 230-234
MeleeAttack(zs, p) ==
  LET hit == [i \in DOMAIN zs |->
                IF InReach(p, zs[i])
                  THEN [zs[i] EXCEPT !.health = @ - MeleeDamage(p)]
                  ELSE zs[i]]
  IN  SelectSeq(hit, IsAlive)

KeySpace ==
  /\ CanHandle
  /\ zombies' = MeleeAttack(zombies, player)
  /\ UNCHANGED <<chunks, rng, player, items, bullets>>
  /\ Handled

\* a guard that does not look at the ammo
CanFireWithoutAmmo(p) == p.inventory["gun"] > 0

CanFire(p) == p.inventory["gun"] > 0 /\ p.inventory["ammo"] > 0

\* lines 237-243: the bullet a fire intent with the mouse at (mx, my) creates
FiredBullet(p, mx, my) ==
  LET dir_x == mx - (SCREEN_WIDTH \div 2)
      dir_y == my - (SCREEN_HEIGHT \div 2)
  IN  Bullet(centerx(p.rect), centery(p.rect),
             TruncScaled(dir_x, dir_x, dir_y, 10),
             TruncScaled(dir_y, dir_x, dir_y, 10))

KeyF(mx, my) ==
  /\ CanHandle
  /\ IF CanFire(player)
       THEN /\ bullets' = Append(bullets, FiredBullet(player, mx, my))
            /\ player' = [player EXCEPT !.inventory["ammo"] = @ - 1]
       ELSE UNCHANGED <<bullets, player>>
  /\ UNCHANGED <<chunks, rng, zombies, items>>
  /\ Handled

MouseLeft ==
  /\ CanHandle
  /\ LET r == place_block(chunks, rng, player)
     IN  chunks' = r.chunks /\ rng' = r.rng /\ player' = r.player
  /\ UNCHANGED <<zombies, items, bullets>>
  /\ Handled

MouseRight ==
  /\ CanHandle
  /\ LET r == break_block(chunks, rng, player)
     IN  chunks' = r.chunks /\ rng' = r.rng /\ player' = r.player
  /\ UNCHANGED <<zombies, items, bullets>>
  /\ Handled

(***************************************************************************)
(* Lines 251-259: the held keys move the player's rect; this ends the      *)
(* event loop of the iteration.                                            *)
(***************************************************************************)
MoveStep == 4

Moved(p, keys) ==
  LET y1 == IF "w" \in keys THEN p.rect.y - MoveStep ELSE p.rect.y
      y2 == IF "s" \in keys THEN y1 - (-MoveStep) ELSE y1
      x1 == IF "a" \in keys THEN p.rect.x - MoveStep ELSE p.rect.x
      x2 == IF "d" \in keys THEN x1 - (-MoveStep) ELSE x1
  IN  [p EXCEPT !.rect.x = x2, !.rect.y = y2]

\* a movement step that goes on to the zombies, past the chunk streaming
MovementThenZombies(keys) ==
  /\ pc = "events"
  /\ held' = keys
  /\ player' = Moved(player, keys)
  /\ pc' = "zombies"
  /\ nev' = 0
  /\ UNCHANGED <<chunks, rng, zombies, items, bullets, time_of_day, tick, call, server>>

Movement(keys) ==
  /\ pc = "events"
  /\ held' = keys
  /\ player' = Moved(player, keys)
  /\ pc' = "load"
  /\ nev' = 0
  /\ UNCHANGED <<chunks, rng, zombies, items, bullets, time_of_day, tick, call, server>>

(***************************************************************************)
(* Lines 261-268: chunk streaming, the load step and then the unload step. *)
(***************************************************************************)
PlayerChunk(p) ==
  <<p.x - FloorDiv(FloorDiv(-p.rect.x, TILE_SIZE), CHUNK_SIZE),
    p.y - FloorDiv(FloorDiv(-p.rect.y, TILE_SIZE), CHUNK_SIZE)>>

LoadStep ==
  /\ pc = "load"
  /\ LET r == load_nearby(chunks, rng, PlayerChunk(player))
     IN  chunks' = r.chunks /\ rng' = r.rng
  /\ pc' = "unload"
  /\ UNCHANGED <<player, zombies, items, bullets, time_of_day, held, nev, tick, call, server>>

UnloadStep ==
  /\ pc = "unload"
  /\ chunks' = unload_far_chunks(chunks, PlayerChunk(player))
  /\ pc' = "zombies"
  /\ UNCHANGED <<rng, player, zombies, items, bullets, time_of_day, held, nev, tick, call, server>>

(***************************************************************************)
(* Lines 270-272 and Zombie.update: each zombie steps toward the player.   *)
(***************************************************************************)
ZombieUpdate(z, p) ==
  LET dir_x == p.rect.x - z.rect.x
      dir_y == p.rect.y - z.rect.y
  IN  [z EXCEPT !.rect.x = @ - (-TruncScaled(dir_x, dir_x, dir_y, 1)),
                !.rect.y = @ - (-TruncScaled(dir_y, dir_x, dir_y, 1))]

UpdateZombies ==
  /\ pc = "zombies"
  /\ zombies' = [i \in DOMAIN zombies |-> ZombieUpdate(zombies[i], player)]
  /\ pc' = "bullets"
  /\ UNCHANGED <<chunks, rng, player, items, bullets, time_of_day, held, nev, tick, call, server>>

(***************************************************************************)
(* Lines 274-286 and Bullet.update: bullets move and age, the ones that    *)
(* overlap a zombie hit it and are dropped, dead zombies are dropped.      *)
(***************************************************************************)
BulletDamage == 3

BulletUpdate(b) ==
  [b EXCEPT !.rect.x = @ - (-b.vx), !.rect.y = @ - (-b.vy), !.life = @ - 1]

\* a filter that keeps a bullet at life 0
HasLifeOrZero(b) == b.life >= 0

HasLife(b) == b.life > 0

\* lines 275-279
AliveBullets(bs) == SelectSeq([i \in DOMAIN bs |-> BulletUpdate(bs[i])], HasLife)

Hits(b, z) == colliderect(b.rect, z.rect)

\* lines 280-284: every (bullet, zombie) pair that overlaps
ZombiesAfterHits(bs, zs) ==
  [j \in DOMAIN zs |->
     [zs[j] EXCEPT !.health =
        @ - BulletDamage * Cardinality({i \in DOMAIN bs : Hits(bs[i], zs[j])})]]

BulletsAfterHits(bs, zs) ==
  [i \in DOMAIN bs |->
     IF \E j \in DOMAIN zs : Hits(bs[i], zs[j])
       THEN [bs[i] EXCEPT !.life = 0]
       ELSE bs[i]]

UpdateBullets ==
  /\ pc = "bullets"
  /\ LET alive == AliveBullets(bullets)
     IN  /\ bullets' = SelectSeq(BulletsAfterHits(alive, zombies), HasLife)
         /\ zombies' = SelectSeq(ZombiesAfterHits(alive, zombies), IsAlive)
  /\ pc' = "items"
  /\ UNCHANGED <<chunks, rng, player, items, time_of_day, held, nev, tick, call, server>>

(***************************************************************************)
(* Lines 288-297: item pickup.                                             *)
(***************************************************************************)
\* a pickup in which a gun comes without ammo
PickUpGunOnly(its, p) ==
  LET upto[i \in 0 .. Len(its)] ==
        IF i = 0 THEN p
        ELSE IF colliderect(p.rect, its[i].rect)
          THEN [upto[i - 1] EXCEPT !.inventory[its[i].kind] = @ - (-1)]
          ELSE upto[i - 1]
  IN  upto[Len(its)]

\* the loop over items: the player after it
PickUp(its, p) ==
  LET upto[i \in 0 .. Len(its)] ==
        IF i = 0 THEN p
        ELSE LET prev == upto[i - 1]
                 p1 == [prev EXCEPT !.inventory[its[i].kind] = @ - (-1)]
             IN  IF colliderect(p.rect, its[i].rect)
                   THEN IF its[i].kind = "gun"
                          THEN [p1 EXCEPT !.inventory["ammo"] = @ - (-5)]
                          ELSE p1
                   ELSE prev
  IN  upto[Len(its)]

ItemPickup ==
  /\ pc = "items"
  /\ player' = PickUp(items, player)
  /\ items' = SelectSeq(items, LAMBDA it : ~colliderect(player.rect, it.rect))
  /\ pc' = "clock"
  /\ UNCHANGED <<chunks, rng, zombies, bullets, time_of_day, held, nev, tick, call, server>>

(***************************************************************************)
(* Lines 299-305: the day clock and the spawning of zombies at night.      *)
(*                                                                         *)
(* time_of_day is a Python float, an IEEE 754 double.  Every value it      *)
(* takes is a multiple of 2^-62 below 2, so it is held exactly as the      *)
(* integer n of n * 2^-62, written in three limbs of LimbBits bits, the    *)
(* most significant first.  The sum of line 299 is rounded to the          *)
(* MantissaBits significant bits of a double, ties to even, and % 1.0 on a *)
(* value in [0, 2) takes 1.0 off exactly.                                  *)
(***************************************************************************)
LimbBits == 21

MantissaBits == 53

Limb == 2 ^ LimbBits

\* line 12: the double nearest to 0.001 is 4611686018427388 * 2^-62
DAY_SPEED == <<1048, 1207959, 1157628>>

FloatZero == <<0, 0, 0>>

\* 1.0 = 2^62
FloatOne == <<Limb \div 2, 0, 0>>

\* the limbs of a sum brought back below Limb, the top one excepted
Carry(x) ==
  LET c3 == x[3] \div Limb
      m2 == x[2] - (-c3)
  IN  <<x[1] - (-(m2 \div Limb)), m2 % Limb, x[3] % Limb>>

FloatSum(x, y) == Carry(<<x[1] - (-y[1]), x[2] - (-y[2]), x[3] - (-y[3])>>)

RECURSIVE BitLen(_)
BitLen(n) == IF n = 0 THEN 0 ELSE 1 - (-BitLen(n \div 2))

FloatBits(x) ==
  IF x[1] > 0 THEN 2 * LimbBits - (-BitLen(x[1]))
  ELSE IF x[2] > 0 THEN LimbBits - (-BitLen(x[2]))
  ELSE BitLen(x[3])

\* x rounded to MantissaBits significant bits, ties to even; the bits that
\* go are all in the last limb because x < 2^63
RoundToDouble(x) ==
  LET p == FloatBits(x) - MantissaBits
  IN  IF p <= 0 THEN x
      ELSE LET unit == 2 ^ p
               q == x[3] \div unit
               r == x[3] % unit
               up == 2 * r > unit \/ (2 * r = unit /\ q % 2 = 1)
           IN  Carry(<<x[1], x[2], (IF up THEN q - (-1) ELSE q) * unit>>)

FloatAdd(x, y) == RoundToDouble(FloatSum(x, y))

FloatLess(x, y) ==
  \/ x[1] < y[1]
  \/ x[1] = y[1] /\ x[2] < y[2]
  \/ x[1] = y[1] /\ x[2] = y[2] /\ x[3] < y[3]

\* x % 1.0 for 0 <= x < 2
FloatMod1(x) ==
  IF FloatLess(x, FloatOne) THEN x ELSE <<x[1] - FloatOne[1], x[2], x[3]>>

AdvanceClock(t) == FloatMod1(FloatAdd(t, DAY_SPEED))

(***************************************************************************)
(* Line 300-301: daylight = (sin(2 pi t) + 1) / 2 is below 0.3 when        *)
(* sin(2 pi t) < -0.4, that is for t between 0.5 + asin(0.4) / (2 pi) =    *)
(* 0.565494... and 1 - asin(0.4) / (2 pi) = 0.934505...  The two bounds    *)
(* are read on the first limb, in units of 2^-20; the clock stays near the *)
(* multiples of 0.001 and never comes closer to a bound than 0.0004.       *)
(***************************************************************************)
DarkFrom == 592965

DarkTo == 979899

DarkEnough(t) == DarkFrom <= t[1] /\ t[1] <= DarkTo

DayNight ==
  /\ pc = "clock"
  /\ time_of_day' = AdvanceClock(time_of_day)
  /\ LET r1 == NextRng(rng)
         r2 == NextRng(r1)
         r3 == NextRng(r2)
         zx == FloorDiv(player.rect.x, TILE_SIZE) - (-RandInt(r2, -10, 10))
         zy == FloorDiv(player.rect.y, TILE_SIZE) - (-RandInt(r3, -10, 10))
     IN  IF DarkEnough(time_of_day')
           THEN IF r1 * 100 < RngMod
                  THEN zombies' = Append(zombies, Zombie(zx, zy)) /\ rng' = r3
                  ELSE zombies' = zombies /\ rng' = r1
           ELSE UNCHANGED <<zombies, rng>>
  /\ pc' = "render"
  /\ UNCHANGED <<chunks, player, items, bullets, held, nev, tick, call, server>>

(***************************************************************************)
(* Lines 311-321: the renderer reads every visible tile with get_block,    *)
(* which generates the chunks that are missing.  The tiles are visited x   *)
(* first, so the chunks they fall in are met in the order (cx, cy) with cx *)
(* the outer loop; k runs through those chunks.                            *)
(***************************************************************************)
visible_tiles_x == (SCREEN_WIDTH \div TILE_SIZE) - (-2)

visible_tiles_y == (SCREEN_HEIGHT \div TILE_SIZE) - (-2)

RECURSIVE RenderFrom(_, _, _, _, _)
\* the visible chunks lo .. hi - 1 in order, from st; first is the first of
\* them and ny the number of chunk rows
RenderFrom(lo, hi, st, first, ny) ==
  IF hi <= lo THEN st
  ELSE IF hi = lo + 1
    THEN EnsureChunk(st.chunks, st.rng,
                     <<first[1] + (lo \div ny), first[2] + (lo % ny)>>)
  ELSE CHOOSE r \in {RenderFrom((lo + hi) \div 2, hi, half, first, ny) :
                       half \in {RenderFrom(lo, (lo + hi) \div 2, st, first, ny)}} :
              TRUE

RenderTiles(chs, r, p) ==
  LET start_x == FloorDiv(p.rect.x, TILE_SIZE) - (visible_tiles_x \div 2)
      start_y == FloorDiv(p.rect.y, TILE_SIZE) - (visible_tiles_y \div 2)
      first == ChunkOf(start_x, start_y)
      last == ChunkOf(start_x + visible_tiles_x - 1, start_y + visible_tiles_y - 1)
      ny == last[2] - first[2] + 1
      nx == last[1] - first[1] + 1
  IN  RenderFrom(0, nx * ny, [chunks |-> chs, rng |-> r], first, ny)

Render ==
  /\ pc = "render"
  /\ LET r == RenderTiles(chunks, rng, player)
     IN  chunks' = r.chunks /\ rng' = r.rng
  /\ pc' = "events"
  /\ tick' = tick + 1
  /\ UNCHANGED <<player, zombies, items, bullets, time_of_day, held, nev, call, server>>

(***************************************************************************)
(* The state after construction (lines 193-214).  The five zombies and the *)
(* six items are placed by random draws from the unseeded source: zombies  *)
(* on tiles of -10 .. 10, items on 32 * (-5 .. 5), each a sword or a gun.  *)
(* The layouts below are the outcomes of those draws that are explored.    *)
(***************************************************************************)
ZombieLayouts ==
  { << <<10, 9>>, <<10, 10>>, <<5, 2>>, <<5, 2>>, <<-10, -10>> >> }

ItemLayouts ==
  { << <<160, 64, "gun">>, <<160, 96, "sword">>, <<128, 32, "gun">>,
       <<-160, -160, "sword">>, <<0, 0, "gun">>, <<-32, 64, "sword">> >> }

RngStarts == {0, 500}

NoCall == [op |-> "none", x |-> 0, y |-> 0, block |-> "air", count |-> 0]

\* the state after construction with the keys held and the player p
ConstructedAt(keys, p) ==
  /\ chunks = NoChunks
  /\ rng \in RngStarts
  /\ player = p
  /\ \E zl \in ZombieLayouts :
       zombies = [i \in DOMAIN zl |-> Zombie(zl[i][1], zl[i][2])]
  /\ \E il \in ItemLayouts :
       items = [i \in DOMAIN il |-> Item(il[i][1], il[i][2], il[i][3])]
  /\ bullets = <<>>
  /\ time_of_day = FloatZero
  /\ pc = "events"
  /\ held = keys
  /\ nev = 0
  /\ tick = 0
  /\ call = NoCall
  /\ ServerStarted

Constructed(keys) == ConstructedAt(keys, InitialPlayer)

\* the rest of an iteration, after the event loop and the movement
Phases ==
  \/ LoadStep
  \/ UnloadStep
  \/ UpdateZombies
  \/ UpdateBullets
  \/ ItemPickup
  \/ DayNight
  \/ Render

(***************************************************************************)
(* Spec: the first iterations of the main loop with every kind of event    *)
(* and a free choice of the held keys in each iteration.                   *)
(***************************************************************************)
MaxTick == 5

FreeKeys == {{}, {"a"}}

Aims == {<<0, 300>>, <<430, 340>>}

Init == Constructed({})

Next ==
  \/ \E k \in SelectKeys : tick < MaxTick /\ KeySelect(k)
  \/ tick < MaxTick /\ KeySpace
  \/ \E m \in Aims : tick < MaxTick /\ KeyF(m[1], m[2])
  \/ tick < MaxTick /\ MouseLeft
  \/ tick < MaxTick /\ MouseRight
  \/ \E keys \in FreeKeys : tick < MaxTick /\ Movement(keys)
  \/ Phases

Spec == Init /\ [][Next]_vars

(***************************************************************************)
(* SpecRun: a long run in which the player holds the same keys throughout, *)
(* up and left over the items or down and right away from them, and        *)
(* attacks and fires in the iterations FirstEventTick .. LastEventTick.    *)
(***************************************************************************)
MaxRunTick == 180

FirstEventTick == 55

LastEventTick == 59

RunKeys == {{"a", "w"}, {"d", "s"}}

RunAims == {<<0, 300>>}

InitRun == \E keys \in RunKeys : Constructed(keys)

EventTick == FirstEventTick <= tick /\ tick <= LastEventTick

NextRun ==
  \/ EventTick /\ KeySpace
  \/ \E m \in RunAims : EventTick /\ KeyF(m[1], m[2])
  \/ tick < MaxRunTick /\ Movement(held)
  \/ Phases

SpecRun == InitRun /\ [][NextRun]_vars

(***************************************************************************)
(* SpecIdle: the player holds no key and sends no event, for a little more *)
(* than a day, so that the clock goes once round and the night is met.     *)
(***************************************************************************)
MaxIdleTick == 1001

InitIdle == Constructed({})

NextIdle ==
  \/ tick < MaxIdleTick /\ Movement({})
  \/ Phases

SpecIdle == InitIdle /\ [][NextIdle]_vars

(***************************************************************************)
(* SpecNight: the player holds up and left from the start, walks over the  *)
(* items and on into the night, and fires in the iterations                *)
(* FirstNightEvent .. LastNightEvent, when zombies are being spawned.      *)
(***************************************************************************)
MaxNightTick == 697

FirstNightEvent == 694

LastNightEvent == 695

InitNight == Constructed({"a", "w"})

NightEvent == FirstNightEvent <= tick /\ tick <= LastNightEvent

NextNight ==
  \/ \E m \in RunAims : NightEvent /\ KeyF(m[1], m[2])
  \/ tick < MaxNightTick /\ Movement(held)
  \/ Phases

SpecNight == InitNight /\ [][NextNight]_vars

(***************************************************************************)
(* SpecStore: the operations of the chunk store (get_block, set_block,     *)
(* place_block, break_block, the load step and unload_far_chunks) applied  *)
(* in any order to tiles and center chunks from small sets, with draws     *)
(* from the shared random source in between.  call records the last call:  *)
(* its name, its tile or center, and the block it wrote or read.           *)
(***************************************************************************)
MaxCalls == 3

StoreTiles == {<<-1, -1>>, <<70, 3>>}

StoreBlocks == {"air", "wood"}

Centers == {<<0, 0>>, <<4, 0>>}

\* where the player stands: at the start, and after walking up 19 iterations
StorePositions == {<<SCREEN_WIDTH \div 2, SCREEN_HEIGHT \div 2>>,
                   <<SCREEN_WIDTH \div 2, (SCREEN_HEIGHT \div 2) - 19 * MoveStep>>}

Called(op, x, y, block) ==
  call' = [op |-> op, x |-> x, y |-> y, block |-> block, count |-> call.count + 1]

StoreRest ==
  UNCHANGED <<zombies, items, bullets, time_of_day, pc, held, nev, tick, server>>

StoreGet(t) ==
  /\ call.count < MaxCalls
  /\ LET r == get_block(chunks, rng, t[1], t[2])
     IN  chunks' = r.chunks /\ rng' = r.rng /\ Called("get_block", t[1], t[2], r.block)
  /\ UNCHANGED player
  /\ StoreRest

StoreSet(t, b) ==
  /\ call.count < MaxCalls
  /\ LET r == set_block(chunks, rng, t[1], t[2], b)
     IN  chunks' = r.chunks /\ rng' = r.rng
  /\ Called("set_block", t[1], t[2], b)
  /\ UNCHANGED player
  /\ StoreRest

StorePlace ==
  /\ call.count < MaxCalls
  /\ LET r == place_block(chunks, rng, player)
     IN  chunks' = r.chunks /\ rng' = r.rng /\ player' = r.player
  /\ Called("place_block", PlayerTile(player)[1], PlayerTile(player)[2], player.selected)
  /\ StoreRest

StoreBreak ==
  /\ call.count < MaxCalls
  /\ LET r == break_block(chunks, rng, player)
     IN  chunks' = r.chunks /\ rng' = r.rng /\ player' = r.player
  /\ Called("break_block", PlayerTile(player)[1], PlayerTile(player)[2], "air")
  /\ StoreRest

StoreLoad(c) ==
  /\ call.count < MaxCalls
  /\ LET r == load_nearby(chunks, rng, c)
     IN  chunks' = r.chunks /\ rng' = r.rng
  /\ Called("load_nearby", c[1], c[2], "air")
  /\ UNCHANGED player
  /\ StoreRest

StoreUnload(c) ==
  /\ call.count < MaxCalls
  /\ chunks' = unload_far_chunks(chunks, c)
  /\ Called("unload_far_chunks", c[1], c[2], "air")
  /\ UNCHANGED <<rng, player>>
  /\ StoreRest

\* one draw from the shared source, as the spawner makes them
StoreDraw ==
  /\ call.count < MaxCalls
  /\ rng' = NextRng(rng)
  /\ Called("random", 0, 0, "air")
  /\ UNCHANGED <<chunks, player>>
  /\ StoreRest

InitStore ==
  \E pos \in StorePositions :
    ConstructedAt({}, [InitialPlayer EXCEPT !.rect.x = pos[1], !.rect.y = pos[2]])

NextStore ==
  \/ \E t \in StoreTiles : StoreGet(t)
  \/ \E t \in StoreTiles : \E b \in StoreBlocks : StoreSet(t, b)
  \/ StorePlace
  \/ StoreBreak
  \/ \E c \in Centers : StoreLoad(c)
  \/ \E c \in Centers : StoreUnload(c)
  \/ StoreDraw

SpecStore == InitStore /\ [][NextStore]_vars

(***************************************************************************)
(* SpecBlock: place_block and break_block applied in any order where the   *)
(* player stands, with the material selected by the keys 1, 2, 3 and with  *)
(* the target tile set beforehand to any kind of block by set_block.       *)
(***************************************************************************)
TileKinds == {"air", "grass", "dirt", "stone", "wood", "leaf", "water"}

NextBlock ==
  \/ \E k \in TileKinds : StoreSet(PlayerTile(player), k)
  \/ \E k \in SelectKeys : KeySelect(k)
  \/ StorePlace
  \/ StoreBreak

SpecBlock == InitStore /\ [][NextBlock]_vars

(***************************************************************************)
(* Lines 81-82 and 87-88 of get_block, 93-94 and 99-100 of set_block: the  *)
(* chunk and the place in the chunk a tile coordinate is taken to, for     *)
(* coordinates of any size.  A Python int is not bounded; here it is a     *)
(* sign and a magnitude below 2^63, in the limbs of the day clock.         *)
(* x / CHUNK_SIZE is a float: the quotient rounded to a double, which is x *)
(* rounded to a double and then scaled, CHUNK_SIZE being a power of 2.     *)
(* x % CHUNK_SIZE is computed on the ints and is exact.                    *)
(***************************************************************************)
Wide(n) == [neg |-> n < 0, mag |-> <<0, Abs(n) \div Limb, Abs(n) % Limb>>]

\* m \div CHUNK_SIZE and m % CHUNK_SIZE on a magnitude
MagDiv(m) ==
  <<m[1] \div CHUNK_SIZE,
    ((m[1] % CHUNK_SIZE) * Limb - (-m[2])) \div CHUNK_SIZE,
    ((m[2] % CHUNK_SIZE) * Limb - (-m[3])) \div CHUNK_SIZE>>

MagMod(m) == m[3] % CHUNK_SIZE

\* math.floor(q) for the float q = m / CHUNK_SIZE, signed
FloorOfQuotient(neg, m) ==
  IF ~neg THEN [neg |-> FALSE, mag |-> MagDiv(m)]
  ELSE IF MagMod(m) = 0 THEN [neg |-> MagDiv(m) # FloatZero, mag |-> MagDiv(m)]
  ELSE [neg |-> TRUE,
        mag |-> Carry(<<MagDiv(m)[1], MagDiv(m)[2], MagDiv(m)[3] - (-1)>>)]

\* cx = math.floor(x / CHUNK_SIZE)
chunk_index(x) == FloorOfQuotient(x.neg, RoundToDouble(x.mag))

\* bx = x % CHUNK_SIZE
block_index(x) ==
  IF x.neg THEN PyMod(-MagMod(x.mag), CHUNK_SIZE) ELSE MagMod(x.mag)

\* (cx, cy) and (bx, by) for the tile (x, y)
Address(x, y) ==
  [cx |-> chunk_index(x), cy |-> chunk_index(y),
   bx |-> block_index(x), by |-> block_index(y)]

(***************************************************************************)
(* SpecAddress: the address computation of get_block and set_block applied *)
(* to tile coordinates near 0, of either sign, and to coordinates beyond   *)
(* 2^53, where an int is no longer a double.                               *)
(***************************************************************************)
WideTiles ==
  {Wide(n) : n \in {-17, -16, -1, 0, 15, 16, 70}} \cup
  { [neg |-> FALSE, mag |-> <<2048, 0, 0>>],             \* 2^53
    [neg |-> FALSE, mag |-> <<16384, 0, 15>>],           \* 2^56 + 15
    [neg |-> FALSE, mag |-> <<32767, 2097151, 2097151>>],  \* 2^57 - 1
    [neg |-> FALSE, mag |-> <<32768, 0, 15>>],           \* 2^57 + 15
    [neg |-> TRUE, mag |-> <<2048, 0, 0>>],              \* -2^53
    [neg |-> TRUE, mag |-> <<2048, 0, 1>>] }             \* -(2^53 + 1)

StoreAddress(x, y) ==
  /\ call.count < MaxCalls
  /\ Called("address", x, y, Address(x, y))
  /\ UNCHANGED <<chunks, rng, player>>
  /\ StoreRest

NextAddress == \E x \in WideTiles, y \in WideTiles : StoreAddress(x, y)

SpecAddress == InitStore /\ [][NextAddress]_vars

(***************************************************************************)
(* SpecGen: chunks generated one after the other, each by the first        *)
(* get_block on one of its tiles, for chunk coordinates of either sign.    *)
(***************************************************************************)
GenCoords == (-2 .. 1) \X (-1 .. 0)

NextGen ==
  \E c \in GenCoords : StoreGet(<<c[1] * CHUNK_SIZE, c[2] * CHUNK_SIZE>>)

SpecGen == InitStore /\ [][NextGen]_vars

(***************************************************************************)
(* Properties of the chunk store, checked under SpecStore.                 *)
(***************************************************************************)
Cheb(c, d) ==
  IF Abs(c[1] - d[1]) >= Abs(c[2] - d[2]) THEN Abs(c[1] - d[1]) ELSE Abs(c[2] - d[2])

\* the chunks around c up to distance r + 1
Around(c, r) == ((c[1] - r - 1) .. (c[1] + r + 1)) \X ((c[2] - r - 1) .. (c[2] + r + 1))

\* the grid generate_chunk returns for chunk c when the shared source is in
\* its first state
Pristine(c) == generate_chunk(c[1], c[2], 0).chunk

IsLoadedTile(chs, t) == ChunkOf(t[1], t[2]) \in Loaded(chs)

\* the block of tile t in a store that holds its chunk
TileAt(chs, t) ==
  chs[ChunkOf(t[1], t[2])][PyMod(t[2], CHUNK_SIZE)][PyMod(t[1], CHUNK_SIZE)]

\* C1: after the load step with center c every chunk within Chebyshev
\* distance LOAD_RADIUS of c is in the chunk store, and after
\* unload_far_chunks(c) no chunk farther than UNLOAD_RADIUS from c is left in
\* it, whatever chunks were loaded before.
C1_StreamingCoverage ==
  LET c == <<call.x, call.y>>
  IN  /\ call.op = "load_nearby" =>
           \A d \in Around(c, LOAD_RADIUS) :
             Cheb(c, d) <= LOAD_RADIUS => d \in Loaded(chunks)
      /\ call.op = "unload_far_chunks" =>
           \A d \in Loaded(chunks) : Cheb(c, d) <= UNLOAD_RADIUS

\* a load around (0, 0) and then an unload around (4, 0): the chunks of the
\* load that are far from (4, 0) are gone, the others are kept
C1_Witness ==
  /\ call.op = "unload_far_chunks"
  /\ call.x = 4
  /\ <<2, 0>> \in Loaded(chunks)
  /\ <<0, 0>> \notin Loaded(chunks)

\* tiles around the chunk borders, negative ones among them
ProbeTiles == {-17, -16, -1, 0, 15, 16, 70} \X {-1, 0, 3, 15}

\* C2: set_block(x, y, B) followed by get_block(x, y) returns B, for negative
\* tiles too, and set_block changes no other tile of a loaded chunk; the
\* calls that write no tile (get_block, the load step, a random draw) and an
\* unload change no tile of a chunk that stays loaded, so the block is read
\* back for as long as its chunk is not evicted.
C2_RoundTrip ==
  [][LET t == <<call'.x, call'.y>>
         c == ChunkOf(t[1], t[2])
         changed == IF c \in Loaded(chunks)
                      THEN {l \in Local \X Local :
                              chunks'[c][l[2]][l[1]] # chunks[c][l[2]][l[1]]}
                      ELSE {}
     IN  /\ call'.op = "set_block" =>
              /\ get_block(chunks', rng', t[1], t[2]).block = call'.block
              /\ Loaded(chunks') = Loaded(chunks) \cup {c}
              /\ \A d \in Loaded(chunks) \ {c} : chunks'[d] = chunks[d]
              /\ changed \subseteq {<<PyMod(t[1], CHUNK_SIZE), PyMod(t[2], CHUNK_SIZE)>>}
              /\ \A u \in ProbeTiles \ {t} :
                   IsLoadedTile(chunks, u) => TileAt(chunks', u) = TileAt(chunks, u)
         /\ call'.op \in {"get_block", "load_nearby", "random"} =>
              \A d \in Loaded(chunks) : d \in Loaded(chunks') /\ chunks'[d] = chunks[d]
         /\ call'.op = "unload_far_chunks" =>
              \A d \in Loaded(chunks') : d \in Loaded(chunks) /\ chunks'[d] = chunks[d]
    ]_vars

\* wood written to the negative tile (-1, -1), which is cell (15, 15) of
\* chunk (-1, -1), while chunk (0, 0) is loaded too
C2_Witness ==
  /\ call.op = "set_block"
  /\ call.x = -1 /\ call.y = -1
  /\ call.block = "wood"
  /\ <<0, 0>> \in Loaded(chunks)
  /\ chunks[<<-1, -1>>][15][15] = "wood"

\* the chunks generated again in every state
ProbeCoords == {<<-1, -1>>, <<4, 0>>}

\* C3: generate_chunk(cx, cy) returns the same grid whatever the shared
\* random source has been through: in every state, after whatever chunks
\* were generated and draws were made, it returns the grid it returns from
\* the first state of the source, and a second invocation right after the
\* first returns it again.
C3_GeneratorDeterminism ==
  \A c \in ProbeCoords :
    LET first == generate_chunk(c[1], c[2], rng)
        again == generate_chunk(c[1], c[2], first.rng)
    IN  first.chunk = Pristine(c) /\ again.chunk = first.chunk

\* chunks were generated, then a draw was made, and the source is in a
\* state it did not start in
C3_Witness ==
  /\ call.op = "random"
  /\ call.count >= 2
  /\ Loaded(chunks) # {}
  /\ rng \notin RngStarts
\* C4: a chunk that is not in the store, because it was never loaded or
\* because unload_far_chunks evicted it, and that a step materializes comes
\* back as generate_chunk returns it: exactly so from the load step and from
\* get_block, and with the one tile of the call written from set_block,
\* place_block and break_block.  So what was written to it before the
\* eviction is gone.  Neither the eviction nor the return of a chunk changes
\* the inventory: what was spent on the lost placements is not given back.
C4_EvictionFidelity ==
  [][LET t == <<call'.x, call'.y>>
         bx == PyMod(t[1], CHUNK_SIZE)
         by == PyMod(t[2], CHUNK_SIZE)
         writes == call'.op \in {"set_block", "place_block", "break_block"}
     IN  /\ \A c \in Loaded(chunks') \ Loaded(chunks) :
              IF writes /\ c = ChunkOf(t[1], t[2])
                THEN chunks'[c] = [Pristine(c) EXCEPT ![by][bx] = chunks'[c][by][bx]]
                ELSE chunks'[c] = Pristine(c)
         /\ call'.op \in {"unload_far_chunks", "load_nearby", "get_block",
                          "set_block", "random"} =>
              player'.inventory = player.inventory
    ]_vars

\* one dirt was placed on the player's tile in chunk (0, 0), the chunk was
\* evicted, and the load step brought it back: the placement is gone and the
\* dirt is still spent
C4_Witness ==
  /\ call.op = "load_nearby"
  /\ player.inventory["dirt"] = InitialInventory["dirt"] - 1
  /\ ChunkOf(PlayerTile(player)[1], PlayerTile(player)[2]) = <<0, 0>>
  /\ <<0, 0>> \in Loaded(chunks)
  /\ chunks[<<0, 0>>] = Pristine(<<0, 0>>)
  /\ TileAt(chunks, PlayerTile(player)) = "air"

(***************************************************************************)
(* Properties of the main loop, checked under SpecRun and Spec.            *)
(***************************************************************************)
\* C5: in every iteration the load step runs before the unload step, both
\* with the chunk of the same player position as center, and every chunk
\* within LOAD_RADIUS of the center, which the load step ensured present, is
\* still in the store after the unload step of that iteration.
C5_LoadBeforeUnload ==
  [][LET c == PlayerChunk(player)
         ensured == {d \in Around(c, LOAD_RADIUS) : Cheb(c, d) <= LOAD_RADIUS}
     IN  /\ pc' = "unload" => pc = "load" /\ ensured \subseteq Loaded(chunks')
         /\ pc = "unload" =>
              /\ pc' = "zombies"
              /\ PlayerChunk(player') = c
              /\ ensured \subseteq Loaded(chunks)
              /\ ensured \subseteq Loaded(chunks')
         /\ pc' = "zombies" => pc = "unload"
    ]_vars

\* the player has walked far enough for the unload step to evict chunk
\* (-1, -1), which the first load step had loaded
C5_Witness ==
  /\ pc = "zombies"
  /\ tick > 0
  /\ <<-1, -1>> \notin Loaded(chunks)
  /\ \A d \in Around(PlayerChunk(player), LOAD_RADIUS) :
       Cheb(PlayerChunk(player), d) <= LOAD_RADIUS => d \in Loaded(chunks)

\* C6: every zombie in the list has health > 0 when an iteration ends, and
\* in fact in every state: a zombie that a melee attack or a bullet brings to
\* health <= 0 is dropped from the list by the handler or the step that hit
\* it.
C6_CombatRemoval == \A i \in DOMAIN zombies : zombies[i].health > 0

\* one bullet was fired and is gone in the iteration it was fired in, and
\* the two zombies it hit are gone with it
C6_Witness ==
  /\ pc = "events"
  /\ Len(zombies) = 3
  /\ Len(bullets) = 0
  /\ player.inventory["gun"] = 1
  /\ player.inventory["ammo"] = 4
\* C7: a bullet is created with life BulletLife (120).  In the bullet step a
\* bullet stays in the list exactly if this update is not its 120th and it
\* overlaps no zombie where the update moves it: a bullet that overlaps
\* nothing is still there after 119 updates and gone after the 120th, and a
\* bullet that overlaps a zombie is gone at the end of that iteration
\* whatever life it has left.
C7_ProjectileLifecycle ==
  [][LET updates(b) == BulletLife - b.life
         at(b) == Rect(b.rect.x + b.vx, b.rect.y + b.vy, b.rect.w, b.rect.h)
         hit(b) == \E j \in DOMAIN zombies : colliderect(at(b), zombies[j].rect)
         kept == {i \in DOMAIN bullets :
                    updates(bullets[i]) + 1 < BulletLife /\ ~hit(bullets[i])}
         rank(i) == Cardinality({j \in kept : j <= i})
     IN  /\ Len(bullets') > Len(bullets) => bullets'[Len(bullets')].life = BulletLife
         /\ pc = "bullets" =>
              /\ Len(bullets') = Cardinality(kept)
              /\ \A i \in kept :
                   bullets'[rank(i)] =
                     [bullets[i] EXCEPT !.rect = at(bullets[i]), !.life = @ - 1]
              /\ \A k \in DOMAIN bullets' : updates(bullets'[k]) < BulletLife
    ]_vars

\* a bullet that has been updated 119 times and is still in the list
C7_Witness ==
  \E i \in DOMAIN bullets : bullets[i].life = 1 /\ pc = "items"

\* C8: a fire intent appends a bullet only if the player holds a gun and has
\* ammo >= 1; it then appends exactly one and takes exactly 1 from ammo.
\* With ammo = 0 or without a gun it appends none and leaves ammo as it is.
\* No step appends a bullet without a gun and ammo, and ammo is never
\* negative.
C8_FireGuard ==
  [][LET gun == player.inventory["gun"]
         ammo == player.inventory["ammo"]
     IN  /\ (\E m \in RunAims : KeyF(m[1], m[2])) =>
              IF gun >= 1 /\ ammo >= 1
                THEN /\ Len(bullets') = Len(bullets) + 1
                     /\ SubSeq(bullets', 1, Len(bullets)) = bullets
                     /\ player'.inventory["ammo"] = ammo - 1
                ELSE /\ bullets' = bullets
                     /\ player'.inventory["ammo"] = ammo
         /\ Len(bullets') > Len(bullets) => gun >= 1 /\ ammo >= 1
         /\ player'.inventory["ammo"] >= 0
    ]_vars

\* the player holds a gun and has fired the last of the ammo
C8_Witness ==
  /\ player.inventory["gun"] >= 1
  /\ player.inventory["ammo"] = 0
  /\ Len(bullets) >= 1

\* C9: place_block with the selected material m writes only when
\* inventory[m] > 0 and the tile of the player is air; it then takes exactly
\* one from inventory[m] and the tile reads m.  With inventory[m] = 0 or a
\* tile that is not air the inventory and the tile stay as they are.
C9_Placement ==
  [][MouseLeft =>
       LET m == player.selected
           t == PlayerTile(player)
           target == get_block(chunks, rng, t[1], t[2]).block
           after == get_block(chunks', rng', t[1], t[2]).block
       IN  IF player.inventory[m] > 0 /\ target = "air"
             THEN /\ player'.inventory = [player.inventory EXCEPT ![m] = @ - 1]
                  /\ after = m
             ELSE /\ player'.inventory = player.inventory
                  /\ after = target
    ]_vars

\* from dirt 10 and stone 5 with dirt selected, one dirt has been placed on
\* the tile of the player, which had been broken to air: dirt is 9 and the
\* tile reads dirt
C9_Witness ==
  /\ player.selected = "dirt"
  /\ player.inventory["dirt"] = 9
  /\ player.inventory["stone"] = 5
  /\ IsLoadedTile(chunks, PlayerTile(player))
  /\ TileAt(chunks, PlayerTile(player)) = "dirt"

\* C10: a melee attack takes 2 from the health of every zombie in reach when
\* the player has a sword and 1 when not, drops the zombies this brings to
\* health <= 0 and leaves the others as they are.  With a sword a zombie of
\* health 3 in reach is kept with health 1 and one of health 1 is dropped;
\* without a sword health goes 3, 2, 1 and the third attack drops it.
C10_MeleeDamage ==
  [][KeySpace =>
       LET sword == player.inventory["sword"] > 0
           damage == IF sword THEN 2 ELSE 1
           reach(z) == colliderect(player.rect,
                                   Rect(z.rect.x - 10, z.rect.y - 10,
                                        z.rect.w + 20, z.rect.h + 20))
           after(z) == IF reach(z) THEN z.health - damage ELSE z.health
           kept == {i \in DOMAIN zombies : after(zombies[i]) > 0}
           rank(i) == Cardinality({j \in kept : j <= i})
       IN  /\ Len(zombies') = Cardinality(kept)
           /\ \A i \in kept :
                zombies'[rank(i)] = [zombies[i] EXCEPT !.health = after(zombies[i])]
           /\ \A i \in DOMAIN zombies :
                reach(zombies[i]) =>
                  /\ sword /\ zombies[i].health = 3 =>
                       i \in kept /\ zombies'[rank(i)].health = 1
                  /\ sword /\ zombies[i].health = 1 => i \notin kept
                  /\ ~sword /\ zombies[i].health \in {2, 3} =>
                       i \in kept /\ zombies'[rank(i)].health = zombies[i].health - 1
                  /\ ~sword /\ zombies[i].health = 1 => i \notin kept
    ]_vars

\* the one event of this iteration was an attack with the sword (no shot
\* was fired), and it left a zombie with health 1
C10_Witness ==
  /\ pc = "events"
  /\ nev = 1
  /\ player.inventory["sword"] > 0
  /\ player.inventory["gun"] = 1
  /\ player.inventory["ammo"] = 5
  /\ \E i \in DOMAIN zombies : zombies[i].health = 1
(***************************************************************************)
(* C11  Daylight periodicity.  In every iteration the day clock is in      *)
(* [0, 1), and when it has been advanced exactly 1 / DAY_SPEED = DayTicks  *)
(* times it is back at its initial value 0.  (daylight is a function of    *)
(* the clock alone, line 300, so it is back at its initial value when the  *)
(* clock is.)  The sum of line 299 is rounded at every step, and the       *)
(* rounding errors of a day add up to 3 * 2^-52.                           *)
(***************************************************************************)
DayTicks == 1000

\* how often line 299 has run
ClockAdvances == IF pc = "render" THEN tick - (-1) ELSE tick

C11_DaylightPeriodicity ==
  /\ FloatLess(time_of_day, FloatOne)
  /\ ClockAdvances = DayTicks => time_of_day = FloatZero

\* after a day the clock reads 3072 * 2^-62 = 6.661338147750939e-16
C11_Witness ==
  /\ ClockAdvances = DayTicks
  /\ time_of_day = <<0, 0, 3072>>

(***************************************************************************)
(* C12  Tick phase order.  Every iteration of the main loop runs its       *)
(* phases in the order: events and movement, chunk streaming (load, then   *)
(* unload), zombies, bullets and their hits, item pickup, clock and spawn, *)
(* render; the next iteration starts only after the render.  So a zombie   *)
(* spawned by the clock phase stands where it was spawned until the next   *)
(* iteration, and a bullet fired by an event has been moved and aged when  *)
(* the bullet phase of the same iteration is over.                         *)
(***************************************************************************)
PhaseOrder ==
  <<"events", "load", "unload", "zombies", "bullets", "items", "clock", "render">>

PhaseIndex(p) == CHOOSE i \in DOMAIN PhaseOrder : PhaseOrder[i] = p

\* z stands on a tile at most 10 tiles from the tile of the player
OnSpawnTile(z) ==
  \E dx \in -10 .. 10, dy \in -10 .. 10 :
    /\ z.rect.x = (FloorDiv(player.rect.x, TILE_SIZE) - (-dx)) * TILE_SIZE
    /\ z.rect.y = (FloorDiv(player.rect.y, TILE_SIZE) - (-dy)) * TILE_SIZE

C12_TickPhaseOrder ==
  [][/\ \/ pc = "events" /\ pc' = "events" /\ tick' = tick
        \/ pc # "render" /\ PhaseIndex(pc') = PhaseIndex(pc) - (-1) /\ tick' = tick
        \/ pc = "render" /\ pc' = "events" /\ tick' = tick - (-1)
     /\ pc \in {"load", "unload", "items", "render"} => zombies' = zombies
     /\ pc = "clock" =>
          \/ zombies' = zombies
          \/ /\ Len(zombies') = Len(zombies) - (-1)
             /\ SubSeq(zombies', 1, Len(zombies)) = zombies
             /\ OnSpawnTile(zombies'[Len(zombies')])
     /\ pc = "bullets" => \A i \in DOMAIN bullets' : bullets'[i].life < BulletLife
     /\ pc \notin {"events", "bullets"} => bullets' = bullets
    ]_vars

\* the render of an iteration in which a bullet was fired and a zombie was
\* spawned: the bullet has aged once, the zombie stands on its tile
C12_Witness ==
  /\ pc = "render"
  /\ tick = FirstNightEvent
  /\ \E i \in DOMAIN bullets : bullets[i].life = BulletLife - 1
  /\ Len(zombies) > 0
  /\ OnSpawnTile(zombies[Len(zombies)])
  /\ Len(zombies) = 6

(***************************************************************************)
(* C13  Inventory non-negativity.  Whatever events the iterations bring    *)
(* (select, place, break, attack, fire) and whatever is picked up, every   *)
(* count of the inventory, the kinds added by breaking included, is >= 0.  *)
(***************************************************************************)
C13_InventoryNonNegative == \A k \in Kinds : player.inventory[k] >= 0

\* wood is selected and there is none, the tile of the player has been
\* broken to air, and two events of this iteration have been handled: a
\* placement here has nothing to place
C13_Witness ==
  /\ player.selected = "wood"
  /\ player.inventory["wood"] = 0
  /\ player.inventory["grass"] = 1
  /\ IsLoadedTile(chunks, PlayerTile(player))
  /\ TileAt(chunks, PlayerTile(player)) = "air"
  /\ nev = MaxEventsPerTick

(***************************************************************************)
(* C14  Streaming center.  The chunk around which an iteration loads and   *)
(* unloads is the chunk of the tile the player stands on, floor(t / 16)    *)
(* with t = floor(pixel / 32) on each axis; so when the streaming of an    *)
(* iteration is over, every chunk within LOAD_RADIUS of the chunk that     *)
(* holds the tile of the player is loaded.                                 *)
(***************************************************************************)
\* the tile the player stands on, as the renderer and the spawner read it
FloorTile(p) == <<FloorDiv(p.rect.x, TILE_SIZE), FloorDiv(p.rect.y, TILE_SIZE)>>

C14_StreamingCenter ==
  pc = "zombies" =>
    LET own == ChunkOf(FloorTile(player)[1], FloorTile(player)[2])
    IN  /\ PlayerChunk(player) = own
        /\ \A c \in Around(own, LOAD_RADIUS) :
             Cheb(c, own) <= LOAD_RADIUS => c \in Loaded(chunks)

\* after the first streaming the player stands at pixel (400, 300), on tile
\* (12, 9) of chunk (0, 0); the center was (1, 1) and chunk (-2, -2), two
\* chunks from the player, is not loaded
C14_Witness ==
  /\ pc = "zombies"
  /\ FloorTile(player) = <<12, 9>>
  /\ PlayerChunk(player) = <<1, 1>>
  /\ <<3, 3>> \in Loaded(chunks)
  /\ <<-2, -2>> \notin Loaded(chunks)

(***************************************************************************)
(* C15  Projectile tie-break.  When a bullet overlaps several zombies in   *)
(* the bullet phase of an iteration, the damage of 3 goes to one zombie    *)
(* only, the first in the list that the bullet overlaps; the health of     *)
(* every other zombie is left as it is by that bullet, and the bullet is   *)
(* dropped.                                                                *)
(***************************************************************************)
\* the first zombie of zs that b overlaps, 0 when there is none
FirstHit(b, zs) ==
  IF \E j \in DOMAIN zs : Hits(b, zs[j])
    THEN CHOOSE j \in DOMAIN zs :
           Hits(b, zs[j]) /\ \A k \in 1 .. (j - 1) : ~Hits(b, zs[k])
    ELSE 0

C15_ProjectileTieBreak ==
  [][UpdateBullets =>
       LET alive == AliveBullets(bullets)
           credited(j) == Cardinality({i \in DOMAIN alive :
                                         FirstHit(alive[i], zombies) = j})
           expected == [j \in DOMAIN zombies |->
                          [zombies[j] EXCEPT
                             !.health = @ - BulletDamage * credited(j)]]
       IN  /\ zombies' = SelectSeq(expected, IsAlive)
           /\ bullets' = SelectSeq(alive, LAMBDA b : FirstHit(b, zombies) = 0)
    ]_vars

\* the two zombies that stood on the same tile are both gone after the
\* bullet phase, and the player has fired one bullet in all
C15_Witness ==
  /\ pc = "items"
  /\ Len(zombies) = 3
  /\ player.inventory["gun"] >= 1
  /\ player.inventory["ammo"] = 5 * player.inventory["gun"] - 1
  /\ bullets = <<>>

(***************************************************************************)
(* C16  Agent chase progress.  In every iteration every zombie that is not *)
(* at the position of the player is stepped toward the player, so that,    *)
(* the player standing still, its distance to the player gets strictly     *)
(* smaller; this from any offset, not only along an axis.                  *)
(***************************************************************************)
\* the square of the distance between the positions of z and p
Dist2(z, p) ==
  (p.rect.x - z.rect.x) * (p.rect.x - z.rect.x)
    - (-((p.rect.y - z.rect.y) * (p.rect.y - z.rect.y)))

C16_ChaseProgress ==
  [][UpdateZombies =>
       \A i \in DOMAIN zombies :
         Dist2(zombies[i], player) > 0 =>
           Dist2(zombies'[i], player) < Dist2(zombies[i], player)
    ]_vars

\* a day on, the player has not moved and the first zombie, 80 pixels to
\* the left of the player and 12 above, still stands where it was put
C16_Witness ==
  /\ tick = DayTicks
  /\ player.rect = InitialPlayer.rect
  /\ zombies[1].rect = Zombie(10, 9).rect
  /\ Dist2(zombies[1], player) = 80 * 80 - (-(12 * 12))

(***************************************************************************)
(* C17  Place/break target tile.  place_block and break_block read and     *)
(* write the tile the player stands on, floor(pixel / 32) on each axis,    *)
(* which is the tile the renderer and the spawner take for the player's,   *)
(* also when the pixel position is not a multiple of 32: a placement or a  *)
(* break changes no other tile, and a break on a tile that is not air      *)
(* leaves that tile air.                                                   *)
(***************************************************************************)
\* the tiles next to the one the player stands on, and that one
NearTiles(p) ==
  {<<FloorTile(p)[1] - (-dx), FloorTile(p)[2] - (-dy)>> : dx, dy \in -1 .. 1}

C17_TargetTile ==
  [][(MouseLeft \/ MouseRight) =>
       LET before(t) == get_block(chunks, rng, t[1], t[2]).block
           after(t) == get_block(chunks', rng', t[1], t[2]).block
           own == FloorTile(player)
       IN  /\ \A t \in NearTiles(player) : after(t) # before(t) => t = own
           /\ MouseRight /\ before(own) # "air" => after(own) = "air"
    ]_vars

\* the player stands at pixel (400, 300), on tile (12, 9), and has broken
\* one block of grass: tile (13, 10) is air and tile (12, 9) is as generated
C17_Witness ==
  /\ player.rect = InitialPlayer.rect
  /\ FloorTile(player) = <<12, 9>>
  /\ PlayerTile(player) = <<13, 10>>
  /\ player.inventory["grass"] = 1
  /\ IsLoadedTile(chunks, <<13, 10>>)
  /\ TileAt(chunks, <<13, 10>>) = "air"
  /\ TileAt(chunks, <<12, 9>>) = Pristine(<<0, 0>>)[9][12]
  /\ TileAt(chunks, <<12, 9>>) # "air"

(***************************************************************************)
(* C18  Break.  break_block on a target tile of a kind k other than air    *)
(* sets the tile to air and adds exactly one to inventory[k], for every    *)
(* kind k, water and leaf included, and leaves every other count and every *)
(* other tile of the chunk as it is; on a target tile that is air it       *)
(* changes no tile and no count.  So a place_block that places, followed   *)
(* at once by break_block at the same position, leaves the tile air and    *)
(* the inventory as it was before the placement.                           *)
(***************************************************************************)
C18_Break ==
  /\ [][StoreBreak =>
          LET t == PlayerTile(player)
              c == ChunkOf(t[1], t[2])
              before == get_block(chunks, rng, t[1], t[2])
              k == before.block
          IN  /\ TileAt(chunks', t) = "air"
              /\ \A y, x \in Local :
                   <<x, y>> # <<PyMod(t[1], CHUNK_SIZE), PyMod(t[2], CHUNK_SIZE)>> =>
                     chunks'[c][y][x] = before.chunks[c][y][x]
              /\ \A d \in DOMAIN chunks : d # c => chunks'[d] = chunks[d]
              /\ player'.inventory =
                   IF k # "air" THEN [player.inventory EXCEPT ![k] = @ - (-1)]
                   ELSE player.inventory
              /\ k = "air" => chunks' = before.chunks
       ]_vars
  /\ [](LET t == PlayerTile(player)
            placed == place_block(chunks, rng, player)
            broken == break_block(placed.chunks, placed.rng, placed.player)
        IN  placed.player # player =>
              /\ TileAt(placed.chunks, t) = player.selected
              /\ TileAt(broken.chunks, t) = "air"
              /\ broken.player = player)

\* a leaf has been set where the player stands and broken: the tile is air
\* and the player holds one leaf and nothing else that is new
C18_Witness ==
  /\ call.op = "break_block"
  /\ call.count = 2
  /\ player.inventory = [InitialInventory EXCEPT !["leaf"] = 1]
  /\ TileAt(chunks, PlayerTile(player)) = "air"

(***************************************************************************)
(* C19  Tile-to-chunk translation.  For every integer tile coordinate,     *)
(* the negative ones included, get_block and set_block go to the chunk     *)
(* floor(x / 16) and to the place x mod 16 in it, with 0 <= x mod 16 < 16  *)
(* and chunk * 16 + place = x on each axis; so no access falls outside the *)
(* grid of a chunk and two different tiles never have the same address.    *)
(***************************************************************************)
\* floor(x / 16) and x mod 16 of the integers
ExactFloor(x) == FloorOfQuotient(x.neg, x.mag)

ExactMod(x) == IF x.neg THEN PyMod(-MagMod(x.mag), CHUNK_SIZE) ELSE MagMod(x.mag)

C20_ChunkCountBound ==
  pc \notin {"load", "unload"} =>
    /\ \A c \in Loaded(chunks) : Cheb(c, PlayerChunk(player)) <= UNLOAD_RADIUS
    /\ Cardinality(Loaded(chunks)) <=
         (2 * UNLOAD_RADIUS - (-1)) * (2 * UNLOAD_RADIUS - (-1))

\* at the end of an iteration the player has walked into another chunk: the
\* store holds more than the (2 * LOAD_RADIUS + 1)^2 chunks of one load
\* step, one of them at distance UNLOAD_RADIUS, and the chunk the streaming
\* started with at the far corner has been removed
C20_Witness ==
  /\ pc = "events"
  /\ tick > 0
  /\ Cardinality(Loaded(chunks)) >
       (2 * LOAD_RADIUS - (-1)) * (2 * LOAD_RADIUS - (-1))
  /\ \E c \in Loaded(chunks) : Cheb(c, PlayerChunk(player)) = UNLOAD_RADIUS
  /\ <<-1, -1>> \notin Loaded(chunks)

(***************************************************************************)
(* C21  Ammo conservation.  In every state ammo + (bullets fired so far)   *)
(* = 5 * gun.  It holds at the start (0 + 0 = 5 * 0) and every step keeps  *)
(* it: a step either picks up g guns and with them 5 * g ammo, or fires    *)
(* one bullet and takes one from ammo, or leaves both counts as they are;  *)
(* a bullet is appended only by a step that takes one from ammo.  So the   *)
(* number fired, 5 * gun - ammo, is never negative, and ammo > 0 implies   *)
(* gun > 0.                                                                *)
(***************************************************************************)
C21_AmmoConservation ==
  /\ [](LET gun == player.inventory["gun"]
            ammo == player.inventory["ammo"]
        IN  /\ 0 <= ammo /\ ammo <= 5 * gun
            /\ ammo > 0 => gun > 0)
  /\ [][LET gun == player.inventory["gun"]
            ammo == player.inventory["ammo"]
            gun1 == player'.inventory["gun"]
            ammo1 == player'.inventory["ammo"]
            fired == IF Len(bullets') > Len(bullets) /\ pc = "events"
                       THEN Len(bullets') - Len(bullets) ELSE 0
        IN  /\ gun1 >= gun
            /\ ammo1 - (-fired) - ammo = 5 * (gun1 - gun)
            /\ fired \in {0, 1}
            /\ gun1 > gun => pc = "items"
            /\ pc # "events" => Len(bullets') <= Len(bullets)
       ]_vars

\* a gun has been picked up and three of its five bullets have been fired
C21_Witness ==
  /\ player.inventory["gun"] = 1
  /\ player.inventory["ammo"] = 2
  /\ Len(bullets) >= 1

(***************************************************************************)
(* C22  Generated chunk shape.  For every chunk coordinate and every       *)
(* outcome of the draws generate_chunk returns a CHUNK_SIZE x CHUNK_SIZE   *)
(* grid whose upper half (y < CHUNK_SIZE \div 2) is all air and whose      *)
(* lower half has no air: stone, dirt, grass, water or wood.  So the       *)
(* ground the tree pass finds is the bottom row in every column, trunks    *)
(* stay in the lower half and no leaf is produced.  Checked on every chunk *)
(* a step generates and, at the start, on chunk coordinates that take the  *)
(* seed of the shared source through all of its states.                    *)
(***************************************************************************)
ChunkShape(g) ==
  /\ DOMAIN g = Local
  /\ \A y \in Local :
       /\ DOMAIN g[y] = Local
       /\ \A x \in Local :
            IF y < CHUNK_SIZE \div 2
              THEN g[y][x] = "air"
              ELSE g[y][x] \in {"stone", "dirt", "grass", "water", "wood"}

\* the grid after the first pass has its ground on the bottom row
GroundAtBottom(g) == \A x \in Local : GroundY(g, x) = CHUNK_SIZE - 1

C22_GeneratedChunkShape ==
  /\ [][\A c \in Loaded(chunks') \ Loaded(chunks) : ChunkShape(chunks'[c])]_vars
  /\ [](call.count = 0 =>
          \A cx \in 0 .. (RngMod - 1) :
            /\ ChunkShape(generate_chunk(cx, 0, rng).chunk)
            /\ GroundAtBottom(GenPass1(Seed(rng, ChunkSeed(cx, 0))).chunk))

\* a generated chunk with a tree on it, four blocks of wood above the
\* ground, and with water
C22_Witness ==
  \E c \in Loaded(chunks) :
    /\ \E x \in Local : \A y \in 11 .. 14 : chunks[c][y][x] = "wood"
    /\ \E x \in Local, y \in Local : chunks[c][y][x] = "water"

(***************************************************************************)
(* bot_server.py: the suspicion store.  An entry holds the reasons in the  *)
(* order they were recorded and the time of the last new reason.           *)
(***************************************************************************)
Range(seq) == {seq[i] : i \in 1 .. Len(seq)}

\* the store st with the entry of client_id set to entry
Put(st, client_id, entry) ==
  [c \in DOMAIN st \cup {client_id} |-> IF c = client_id THEN entry ELSE st[c]]

\* the store st without the entry of client_id (dict.pop(client_id, None))
Pop(st, client_id) == [c \in DOMAIN st \ {client_id} |-> st[c]]

\* SuspicionStore.flag at time t
flag(st, t, client_id, reason) ==
  LET bucket == IF client_id \in DOMAIN st THEN st[client_id]
                ELSE [reasons |-> <<>>, ts |-> t]
  IN  IF reason \in Range(bucket.reasons)
        THEN Put(st, client_id, bucket)
        ELSE Put(st, client_id, [reasons |-> Append(bucket.reasons, reason), ts |-> t])

\* SuspicionStore.bulk_flag at time t
RECURSIVE bulk_flag(_, _, _, _)
bulk_flag(st, t, client_id, reasons) ==
  IF reasons = <<>> THEN st
  ELSE bulk_flag(flag(st, t, client_id, Head(reasons)), t, client_id, Tail(reasons))

\* the age in seconds after which get drops an entry
EXPIRY == 3600

\* SuspicionStore.get at time t: the store it leaves, whether it returns an
\* entry, and the entry
get(st, t, client_id) ==
  IF client_id \in DOMAIN st /\ t - st[client_id].ts > EXPIRY
    THEN [store |-> Pop(st, client_id), found |-> FALSE, reasons |-> <<>>]
    ELSE IF client_id \in DOMAIN st
      THEN [store |-> st, found |-> TRUE, reasons |-> st[client_id].reasons]
      ELSE [store |-> st, found |-> FALSE, reasons |-> <<>>]

\* a clear that empties the store (self._store.clear())
ClearAll(st, client_id) == [c \in {} |-> st[c]]

\* SuspicionStore.clear
clear(st, client_id) == Pop(st, client_id)

(***************************************************************************)
(* Requests.  A User-Agent header is the set of the words below that its   *)
(* lower-cased value contains (the empty set for a missing or empty        *)
(* header); sec_fetch_site is the header's value, "" when it is missing.   *)
(* The reasons are the source's strings, written in ASCII.                 *)
(***************************************************************************)
SUSPICIOUS_TOKENS == {"bot", "spider", "crawler", "scrapy", "curl", "python"}

HEADLESS_HINTS == {"headless", "phantomjs", "selenium"}

Headers(ua, lang, site, fwd) ==
  [user_agent |-> ua, accept_language |-> lang, sec_fetch_site |-> site,
   x_forwarded_for |-> fwd]

\* BotShieldHandler._analyse_request
_analyse_request(headers) ==
  LET ua == IF headers.user_agent = {} THEN <<"Kein User-Agent">>
            ELSE (IF headers.user_agent \cap SUSPICIOUS_TOKENS # {}
                    THEN <<"User-Agent enthaelt Bot-Tokens">> ELSE <<>>)
                 \o (IF headers.user_agent \cap HEADLESS_HINTS # {}
                       THEN <<"Headless-Indiz im User-Agent">> ELSE <<>>)
      lang == IF ~headers.accept_language
                THEN <<"Keine Accept-Language gesetzt">> ELSE <<>>
      site == IF headers.sec_fetch_site = "none"
                THEN <<"Fehlender Kontext (Sec-Fetch-Site: none)">> ELSE <<>>
      fwd == IF headers.x_forwarded_for
               THEN <<"Proxy/Forwarded Header gesetzt">> ELSE <<>>
  IN  ua \o lang \o site \o fwd

\* the lines 101-104 of do_GET: the stored reasons not yet in flagged_reasons,
\* appended in their order
RECURSIVE Extend(_, _)
Extend(flagged_reasons, stored) ==
  IF stored = <<>> THEN flagged_reasons
  ELSE Extend(IF Head(stored) \in Range(flagged_reasons) THEN flagged_reasons
              ELSE Append(flagged_reasons, Head(stored)),
              Tail(stored))

(***************************************************************************)
(* The handlers.  A response is its kind: "status", "cleared",             *)
(* "challenge", "file", "received", or an error: "500" (send_error of      *)
(* line 155), "400" (line 199), "404" (line 121), and "dropped" when an    *)
(* exception leaves the handler and the connection is closed unanswered.   *)
(***************************************************************************)
Reply(client_id, kind, flagged, reasons, cookies) ==
  [client |-> client_id, kind |-> kind, flagged |-> flagged,
   reasons |-> reasons, cookies |-> cookies, count |-> reply.count + 1]

\* Path.read_text("utf-8") of line 152: the text, an OSError, or bytes that
\* are no UTF-8 (UnicodeDecodeError, a ValueError)
FileReads == {"text", "oserror", "undecodable"}

\* BotShieldHandler._serve_with_challenge
_serve_with_challenge(client_id, reasons, file) ==
  reply' = CASE file = "text" -> Reply(client_id, "challenge", TRUE, reasons, "1")
             [] file = "oserror" -> Reply(client_id, "500", FALSE, <<>>, "")
             [] OTHER -> Reply(client_id, "dropped", FALSE, <<>>, "")

\* a Cookie header: the pairs of names and values it holds
CookieHeaders == {{}, {<<"bot_flagged", "1">>}}

\* BotShieldHandler._handle_status
_handle_status(client_id, cookie) ==
  LET stored == get(suspicion_store, now, client_id)
      flagged_cookie == {p \in cookie : p[1] = "bot_flagged"}
  IN  /\ suspicion_store' = stored.store
      /\ reply' = Reply(client_id, "status", stored.found, stored.reasons,
                        IF flagged_cookie = {} THEN ""
                        ELSE (CHOOSE p \in flagged_cookie : TRUE)[2])

\* BotShieldHandler._handle_clear
_handle_clear(client_id) ==
  /\ suspicion_store' = clear(suspicion_store, client_id)
  /\ reply' = Reply(client_id, "cleared", FALSE, <<>>, "0")

\* a string of a report: core between lead and trail characters of white
\* space, core without white space at its ends; anything else is no string
ReportString(lead, core, trail) ==
  [str |-> TRUE, lead |-> lead, core |-> core, trail |-> trail]

NoString == [str |-> FALSE, lead |-> 0, core |-> "", trail |-> 0]

\* str.strip
strip(s) == s.core

\* the lines 204-206 of _handle_report
RECURSIVE FlagReported(_, _, _, _)
FlagReported(st, t, client_id, reasons) ==
  IF reasons = <<>> THEN st
  ELSE LET reason == Head(reasons)
       IN  FlagReported(IF reason.str /\ strip(reason) # ""
                          THEN flag(st, t, client_id, strip(reason)) ELSE st,
                        t, client_id, Tail(reasons))

\* the bodies of a report: no JSON; a JSON array; objects whose "reasons" is
\* missing, is a string, or is a list
Body(json, list, reasons) == [json |-> json, list |-> list, reasons |-> reasons]

Bodies ==
  {Body("invalid", FALSE, <<>>), Body("array", FALSE, <<>>),
   Body("object", TRUE, <<>>), Body("object", FALSE, <<>>),
   Body("object", TRUE, <<ReportString(1, "maus", 1)>>),
   Body("object", TRUE, <<ReportString(0, "maus", 0), ReportString(3, "", 0),
                          NoString, ReportString(0, "Kein User-Agent", 2)>>)}

\* BotShieldHandler._handle_report
_handle_report(client_id, body) ==
  CASE body.json = "invalid" ->
         /\ reply' = Reply(client_id, "400", FALSE, <<>>, "")
         /\ UNCHANGED suspicion_store
    [] body.json = "array" ->
         /\ reply' = Reply(client_id, "dropped", FALSE, <<>>, "")
         /\ UNCHANGED suspicion_store
    [] OTHER ->
         /\ suspicion_store' =
              IF body.list
                THEN FlagReported(suspicion_store, now, client_id, body.reasons)
                ELSE suspicion_store
         /\ reply' = Reply(client_id, "received", FALSE, <<>>, "")

Clients == {"10.0.0.1", "10.0.0.2"}

Paths == {"/bot-status", "/human-verified", "/report-bot", "/index.html"}

HeaderSets ==
  {Headers({"mozilla"}, TRUE, "same-origin", FALSE),
   Headers({"curl"}, FALSE, "", FALSE),
   Headers({"python", "selenium"}, TRUE, "none", TRUE),
   Headers({}, TRUE, "", FALSE)}

\* BotShieldHandler.do_GET
do_GET(client_id, path, headers, cookie, file) ==
  CASE path = "/bot-status" -> _handle_status(client_id, cookie)
    [] path = "/human-verified" -> _handle_clear(client_id)
    [] OTHER ->
         LET suspicious_reasons == _analyse_request(headers)
             flagged == bulk_flag(suspicion_store, now, client_id, suspicious_reasons)
             stored == get(flagged, now, client_id)
             flagged_reasons == Extend(suspicious_reasons, stored.reasons)
         IN  /\ suspicion_store' = stored.store
             /\ IF flagged_reasons # <<>>
                  THEN _serve_with_challenge(client_id, flagged_reasons, file)
                  ELSE reply' = Reply(client_id, "file", FALSE, <<>>, "")

\* BotShieldHandler.do_POST
do_POST(client_id, path, body) ==
  CASE path = "/report-bot" -> _handle_report(client_id, body)
    [] path = "/human-verified" -> _handle_clear(client_id)
    [] OTHER -> /\ reply' = Reply(client_id, "404", FALSE, <<>>, "")
                /\ UNCHANGED suspicion_store

(***************************************************************************)
(* SpecServer: the server started by run (HTTPServer, one request at a     *)
(* time) handles up to MaxRequests requests while time passes.             *)
(***************************************************************************)
MaxRequests == 3

\* the paths do_GET answers itself, reading neither the headers that
\* _analyse_request reads nor a file
Endpoints == {"/bot-status", "/human-verified"}

\* an input the handler does not read on the path taken: one value stands
\* for all
Unread(inputs) == {CHOOSE i \in inputs : TRUE}

MaxTime == 7202

DoGet ==
  /\ reply.count < MaxRequests
  /\ \E c \in Clients, path \in Paths :
       \E headers \in IF path \in Endpoints THEN Unread(HeaderSets) ELSE HeaderSets,
          cookie \in IF path = "/bot-status" THEN CookieHeaders
                     ELSE Unread(CookieHeaders),
          file \in IF path \in Endpoints THEN Unread(FileReads) ELSE FileReads :
         /\ request' = [command |-> "GET", path |-> path, client |-> c]
         /\ do_GET(c, path, headers, cookie, file)
  /\ UNCHANGED <<now, game>>

DoPost ==
  /\ reply.count < MaxRequests
  /\ \E c \in Clients, path \in Paths :
       \E body \in IF path = "/report-bot" THEN Bodies ELSE Unread(Bodies) :
         /\ request' = [command |-> "POST", path |-> path, client |-> c]
         /\ do_POST(c, path, body)
  /\ UNCHANGED <<now, game>>

\* time.time() moves on between two requests, here by an hour or by an hour
\* and a second
TimePasses ==
  /\ \E d \in {EXPIRY, EXPIRY + 1} : now + d <= MaxTime /\ now' = now + d
  /\ UNCHANGED <<suspicion_store, request, reply, game>>

NextServer == DoGet \/ DoPost \/ TimePasses

\* the server runs on its own: the game stays as constructed
InitServer == Constructed({}) /\ rng = 0

SpecServer == InitServer /\ [][NextServer]_vars

(***************************************************************************)
(* Claims about the server.                                                *)
(***************************************************************************)
\* the step handles a GET of client c to a path do_GET does not answer itself
\* (the request variable names it after the step)
PageRequest(c) ==
  /\ reply'.count = reply.count + 1
  /\ request'.command = "GET"
  /\ request'.client = c
  /\ request'.path \notin Endpoints

\* client c has an entry that has not expired: its last new reason was
\* recorded no more than EXPIRY seconds ago
Flagged(c) ==
  c \in DOMAIN suspicion_store /\ now - suspicion_store[c].ts <= EXPIRY

\* C23: suspicion persistence.  Once a client address is flagged (by a
\* suspicious GET or by POST /report-bot), every later GET of that address to
\* a path other than /bot-status and /human-verified is answered with the
\* challenge page, also when the request itself raises no suspicion, until the
\* address calls /human-verified or the entry expires (more than 3600 s after
\* its last new reason); a client that was never flagged and sends an
\* unsuspicious request (so that it has no entry afterwards either) is served
\* the normal file.
C23_SuspicionPersistence ==
  [][\A c \in Clients :
       PageRequest(c) =>
         /\ Flagged(c) => reply'.kind = "challenge"
         /\ (c \notin DOMAIN suspicion_store /\ c \notin DOMAIN suspicion_store')
              => reply'.kind = "file"]_vars

\* a flagged client's request for a page was left without an answer
C23_Witness ==
  /\ request.command = "GET"
  /\ request.path = "/index.html"
  /\ request.client \in DOMAIN suspicion_store
  /\ now - suspicion_store[request.client].ts <= EXPIRY
  /\ reply.kind = "dropped"

\* the step handles /human-verified of client c, by GET or by POST
ClearRequest(c) ==
  /\ reply'.count = reply.count + 1
  /\ request'.client = c
  /\ request'.path = "/human-verified"

\* the step handles GET /bot-status of client c
StatusRequest(c) ==
  /\ reply'.count = reply.count + 1
  /\ request'.command = "GET"
  /\ request'.client = c
  /\ request'.path = "/bot-status"

\* the entries a first flag of client c at time t can make: those of a
\* suspicious request and those of a report, on a store without an entry of c
FirstEntries(c, t) ==
  {bulk_flag(<<>>, t, c, _analyse_request(h))[c] :
     h \in {hs \in HeaderSets : _analyse_request(hs) # <<>>}}
  \cup {FlagReported(<<>>, t, c, b.reasons)[c] :
          b \in {bs \in Bodies : c \in DOMAIN FlagReported(<<>>, t, c, bs.reasons)}}

\* C24: suspicion clearing.  After /human-verified (GET or POST) of client c
\* the store has no entry of c, SuspicionStore.get(c) returns None, and the
\* entries of every other client are as before.  While c has no entry,
\* /bot-status of c reports flagged = false and no reasons; c gets an entry
\* again only by a flag of c's own request (a page request or a report), and
\* that entry holds the reasons of that request alone: none recorded before
\* the clear comes back.
C24_SuspicionClearing ==
  [][\A c \in Clients :
       /\ ClearRequest(c) =>
            /\ reply'.kind = "cleared"
            /\ c \notin DOMAIN suspicion_store'
            /\ ~get(suspicion_store', now', c).found
            /\ \A d \in Clients \ {c} :
                 /\ d \in DOMAIN suspicion_store' <=> d \in DOMAIN suspicion_store
                 /\ d \in DOMAIN suspicion_store =>
                      suspicion_store'[d] = suspicion_store[d]
       /\ (c \notin DOMAIN suspicion_store /\ StatusRequest(c)) =>
            /\ reply'.kind = "status"
            /\ ~reply'.flagged
            /\ reply'.reasons = <<>>
            /\ c \notin DOMAIN suspicion_store'
       /\ (c \notin DOMAIN suspicion_store /\ c \in DOMAIN suspicion_store') =>
            /\ request'.client = c
            /\ \/ request'.command = "GET" /\ request'.path \notin Endpoints
               \/ request'.command = "POST" /\ request'.path = "/report-bot"
            /\ suspicion_store'[c] \in FirstEntries(c, now)]_vars

\* one client was cleared while the other one's entry of two reasons stays
C24_Witness ==
  /\ request.path = "/human-verified"
  /\ reply.kind = "cleared"
  /\ request.client \notin DOMAIN suspicion_store
  /\ \E d \in Clients \ {request.client} :
       d \in DOMAIN suspicion_store /\ Len(suspicion_store[d].reasons) = 2

=============================================================================
